---- MODULE Spec2Model ----
(***************************************************************************)
(* Model of VRP-Camiones/VRP.py: greedy multi-day vehicle routing with a   *)
(* fleet of 4 trucks, capacity and workday limits and depot recharges.     *)
(*                                                                         *)
(* Units.  Distances are whole kilometres and times whole minutes: the     *)
(* inputs are drawn from point sets on which math.hypot and the travel     *)
(* time (d / VEL_MED) * 60 are exact integers, so the float arithmetic of  *)
(* the script is exact on them.  Demand weights are counted in units of    *)
(* 1/PesoEscala kg, so that fractional weights and the int() truncation of *)
(* line 148 are represented; camion['carga'] is a whole number of kg.      *)
(***************************************************************************)
EXTENDS Integers, Sequences, FiniteSets, TLC

\* ------------------------------------------------------------------------
\* 1. Problem parameters (VRP.py lines 26-30)
\* ------------------------------------------------------------------------
CAPACIDAD_MAX == 15
VEL_MED == 60
T_DESPACHO == 10
T_RECARGA == 20
T_JORNADA == 7 * 60
\* Variant of the fleet with one truck less.
FlotaMenor == 4 - 1
NumCamiones == 4

\* Weights are stored in units of 1/PesoEscala kg (halves of a kg).
PesoEscala == 2

\* ------------------------------------------------------------------------
\* Bounds of the model
\* ------------------------------------------------------------------------
\* Largest number of clients in an input of the general families.
MaxClients == 2
\* Largest number of clients in an input of the fleet-sized family.
MaxFlota == 5
\* Days that are planned before the model stops following the day loop.
MaxDay == 2

\* ------------------------------------------------------------------------
\* Inputs: the rows of clientes.xlsx
\* ------------------------------------------------------------------------
\* Demand weights in 1/PesoEscala kg: 5 kg, 7.5 kg, 10 kg and 16 kg.
Pesos == {10, 15, 20, 32}
\* Points on a line through the depot: near, at the workday limit (round trip
\* 205 + 10 + 205 = 420 min) and beyond it.
PosRecta == {<<5, 0>>, <<205, 0>>, <<210, 0>>}
\* Points of the plane with integer pairwise distances (5, 12, 13).
PosPlano == {<<5, 0>>, <<0, 12>>, <<5, 12>>}
\* Inputs with more clients than trucks: a truck serves one far client per
\* day, so that these inputs take more than one day.
PosFlota == {<<5, 0>>, <<205, 0>>}
PesosFlota == {10, 20}

Puntos == {<<0, 0>>} \cup PosRecta \cup PosPlano \cup PosFlota

\* The Cliente ID column: distinct non-zero identities, in ascending or in
\* descending order along the rows.
IdOrders(n) == {[i \in 1..n |-> i], [i \in 1..n |-> n + 1 - i]}
IdAscending(n) == {[i \in 1..n |-> i]}

\* The tables of n rows with positions in pos, weights in pesos and the ID
\* column in ids.
Filas(n, pos, pesos, ids) ==
    {[i \in 1..n |-> [id |-> c[i], x |-> k[i][1][1], y |-> k[i][1][2], peso |-> k[i][2]]] :
        k \in [1..n -> pos \X pesos], c \in ids}

Entradas ==
    (UNION {Filas(n, PosRecta, Pesos, IdOrders(n)) : n \in 0..MaxClients})
    \cup (UNION {Filas(n, PosPlano, Pesos, IdOrders(n)) : n \in 0..MaxClients})
    \cup (UNION {Filas(n, PosFlota, PesosFlota, IdAscending(n)) : n \in (MaxClients + 1)..MaxFlota})

VARIABLES
    df,          \* the rows read from the client table (never changes)
    asignado,    \* df['asignado'], one flag per row
    dia_entrega, \* df['día_entrega'], 0 stands for None
    entregas,    \* list of delivery records
    metricas,    \* list of daily metrics
    dia_actual,  \* día_actual
    camiones,    \* the fleet of the day being planned
    idx,         \* truck being routed (1..4)
    ubic,        \* position of that truck: a client ID, or 0 for the depot
    pc           \* position of the script

vars == <<df, asignado, dia_entrega, entregas, metricas, dia_actual, camiones, idx, ubic, pc>>

N == Len(df)

\* ------------------------------------------------------------------------
\* 3. Coordinates (lines 49-51) and 4. distance (lines 56-62)
\* ------------------------------------------------------------------------
\* coords[id]: the depot is ID 0 at (0,0); a later row overwrites an earlier
\* one with the same ID.
coords(id) ==
    IF \E i \in 1..N : df[i].id = id
    THEN LET i == CHOOSE j \in 1..N : df[j].id = id /\ \A m \in (j + 1)..N : df[m].id # id
         IN <<df[i].x, df[i].y>>
    ELSE <<0, 0>>

Abs(a) == IF a < 0 THEN 0 - a ELSE a

\* Integer square root: the r with r*r <= n < (r+1)*(r+1), searched below hi.
ISqrt(n, hi) == CHOOSE r \in 0..hi : r * r <= n /\ n < (r + 1) * (r + 1)

\* math.hypot on the points of the inputs, where it is an exact integer.
Hypot == [p \in Puntos, q \in Puntos |->
            LET dx == p[1] - q[1]
                dy == p[2] - q[2]
            IN ISqrt(dx * dx + dy * dy, Abs(dx) + Abs(dy))]

distancia(p1, p2) == Hypot[p1, p2]

\* Variant of the travel time that forgets the conversion of hours to minutes.
TiempoEnHoras(d) == d \div VEL_MED

\* (d / VEL_MED) * 60, lines 109, 110, 158, 169
Tiempo(d) == (d * 60) \div VEL_MED

\* int(...) of a weight, line 148
IntKg(peso) == peso \div PesoEscala

\* round(., 1) of minutes and round(., 2) of kilometres: times and distances
\* are whole numbers here, which rounding to decimals leaves as they are.
Round1(t) == t
Round2(d) == d

NuevoCamion == [ruta |-> <<0>>, carga |-> 0, tiempo |-> 0, dist |-> 0]

Init ==
    /\ df \in Entradas
    /\ asignado = [i \in 1..Len(df) |-> FALSE]
    /\ dia_entrega = [i \in 1..Len(df) |-> 0]
    /\ entregas = <<>>
    /\ metricas = <<>>
    /\ dia_actual = 1
    /\ camiones = <<>>
    /\ idx = 0
    /\ ubic = 0
    /\ pc = "day_test"

\* ------------------------------------------------------------------------
\* 6. Main loop
\* ------------------------------------------------------------------------
\* Variants of the loop test: df['asignado'].any(), and a test that takes the
\* empty table for unfinished.
AlgunoAsignado == \E i \in 1..N : asignado[i]
TodosAsignadosNoVacio == N > 0 /\ \A i \in 1..N : asignado[i]

\* df['asignado'].all(), line 76
TodosAsignados == \A i \in 1..N : asignado[i]

\* Line 76 with the loop condition false: the day loop exits.
Terminar ==
    /\ pc = "day_test"
    /\ TodosAsignados
    /\ pc' = "done"
    /\ UNCHANGED <<df, asignado, dia_entrega, entregas, metricas, dia_actual, camiones, idx, ubic>>

\* Lines 76-92: a new day starts with a fresh fleet; the first truck is at
\* the depot.
IniciarDia ==
    /\ pc = "day_test"
    /\ ~TodosAsignados
    /\ dia_actual <= MaxDay
    /\ camiones' = [k \in 1..NumCamiones |-> NuevoCamion]
    /\ idx' = 1
    /\ ubic' = 0
    /\ pc' = "select"
    /\ UNCHANGED <<df, asignado, dia_entrega, entregas, metricas, dia_actual>>

\* Rows in table order, as iterrows() enumerates them.
Indices == [i \in 1..N |-> i]

\* Variant of resto that forgets the filter on 'asignado'.
RestoSinFiltro == Indices

\* resto = df[~df['asignado']], line 97
Resto == SelectSeq(Indices, LAMBDA i : ~asignado[i])

\* Variant of the capacity filter that ignores the load already on board.
CabeSinCarga(peso, carga) == peso <= CAPACIDAD_MAX * PesoEscala

\* The capacity filter of line 98: Peso + carga <= CAPACIDAD_MAX.
Cabe(peso, carga) == peso + carga * PesoEscala <= CAPACIDAD_MAX * PesoEscala

\* candidatos, line 98: the unassigned rows that fit in the remaining load.
Candidatos(carga) == SelectSeq(Resto, LAMBDA i : Cabe(df[i].peso, carga))

\* d_ida and t_ida of row i from position u, lines 108-109
DIda(u, i) == distancia(coords(u), coords(df[i].id))
TIda(u, i) == Tiempo(DIda(u, i))

\* t_ret, line 110
TRet(i) == Tiempo(distancia(coords(df[i].id), coords(0)))

\* Variant of the cost that leaves out the return to the depot.
CosteSinRetorno(u, i) == TIda(u, i) + T_DESPACHO

\* coste = t_ida + T_DESPACHO + t_ret, line 111
Coste(u, i) == TIda(u, i) + T_DESPACHO + TRet(i)

\* Variants of the workday filter: one rejects a cost that ends exactly with
\* the workday, the other looks at the elapsed time only.
ExcedeJornadaEstricto(tiempo, coste) == tiempo + coste >= T_JORNADA
ExcedeJornadaSinCoste(tiempo, coste) == tiempo > T_JORNADA

\* The workday filter of line 114.
ExcedeJornada(tiempo, coste) == tiempo + coste > T_JORNADA

\* Variant of the comparison of line 118 with <= in place of <.
MejoraNoEstricta(coste, costeMejor) == coste <= costeMejor

\* Line 118: a candidate replaces the best one only with a strictly lower cost.
Mejora(coste, costeMejor) == coste < costeMejor

\* The loop of lines 104-119 from the k-th candidate on; mejor is the row
\* of the best candidate so far, 0 for None.
RECURSIVE Evaluar(_, _, _, _, _)
Evaluar(cands, k, u, tiempo, mejor) ==
    IF k > Len(cands) THEN mejor
    ELSE LET i == cands[k]
             coste == Coste(u, i)
         IN IF ExcedeJornada(tiempo, coste)
            THEN Evaluar(cands, k + 1, u, tiempo, mejor)
            ELSE IF mejor = 0 \/ Mejora(coste, Coste(u, mejor))
                 THEN Evaluar(cands, k + 1, u, tiempo, i)
                 ELSE Evaluar(cands, k + 1, u, tiempo, mejor)

Mejor(cands, u, tiempo) == Evaluar(cands, 1, u, tiempo, 0)

\* Line 148 reads `row`, the loop variable of line 105: after the loop it is
\* the last candidate enumerated, whichever candidate was selected.
FilaCargada(cands, sel) == cands[Len(cands)]

\* The weight added to camion['carga'], line 148.
PesoCargado(cands, sel) == IntKg(df[FilaCargada(cands, sel)].peso)

\* Lines 141-144: every row with the selected ID is marked.
Marcar(flags, cid, valor) == [i \in 1..N |-> IF df[i].id = cid THEN valor ELSE flags[i]]

\* Lines 96-122 when no client can be served: the truck's inner loop exits.
SinCandidato ==
    /\ pc = "select"
    /\ LET camion == camiones[idx]
           cands == Candidatos(camion.carga)
       IN cands = <<>> \/ Mejor(cands, ubic, camion.tiempo) = 0
    /\ pc' = "close"
    /\ UNCHANGED <<df, asignado, dia_entrega, entregas, metricas, dia_actual, camiones, idx, ubic>>

\* Lines 96-151: selection of the cheapest feasible candidate and its commit.
Atender ==
    /\ pc = "select"
    /\ LET camion == camiones[idx]
           cands == Candidatos(camion.carga)
           sel == Mejor(cands, ubic, camion.tiempo)
       IN /\ cands # <<>>
          /\ sel # 0
          /\ LET cid_sel == df[sel].id
                 d_ida_sel == DIda(ubic, sel)
                 llegada == camion.tiempo + TIda(ubic, sel)
                 salida == llegada + T_DESPACHO
             IN /\ entregas' = Append(entregas,
                        [dia |-> dia_actual, camion |-> idx, cliente |-> cid_sel,
                         llegada_min |-> Round1(llegada), salida_min |-> Round1(salida),
                         dist_tramo_km |-> Round2(d_ida_sel)])
                /\ asignado' = Marcar(asignado, cid_sel, TRUE)
                /\ dia_entrega' = Marcar(dia_entrega, cid_sel, dia_actual)
                /\ camiones' = [camiones EXCEPT ![idx] =
                        [ruta |-> Append(camion.ruta, cid_sel),
                         carga |-> camion.carga + PesoCargado(cands, sel),
                         tiempo |-> salida,
                         dist |-> camion.dist + d_ida_sel]]
                /\ ubic' = cid_sel
    /\ pc' = "recharge"
    /\ UNCHANGED <<df, metricas, dia_actual, idx>>

\* pesos_rest.min(), line 154-155 (only read when pesos_rest is not empty)
PesoMinResto == CHOOSE w \in {df[Resto[k]].peso : k \in 1..Len(Resto)} :
                    \A k \in 1..Len(Resto) : w <= df[Resto[k]].peso

\* Variant of the recharge condition with >= in place of >.
NecesitaRecargaNoEstricta(carga) ==
    /\ Resto # <<>>
    /\ carga * PesoEscala + PesoMinResto >= CAPACIDAD_MAX * PesoEscala

\* The condition of line 155.
NecesitaRecarga(carga) ==
    /\ Resto # <<>>
    /\ carga * PesoEscala + PesoMinResto > CAPACIDAD_MAX * PesoEscala

\* Lines 153-164 with the condition true: return to the depot and unload.
Recargar ==
    /\ pc = "recharge"
    /\ NecesitaRecarga(camiones[idx].carga)
    /\ LET camion == camiones[idx]
           d_vuelta == distancia(coords(ubic), coords(0))
           t_vuelta == Tiempo(d_vuelta)
       IN camiones' = [camiones EXCEPT ![idx] =
                [ruta |-> Append(camion.ruta, 0),
                 carga |-> 0,
                 tiempo |-> camion.tiempo + t_vuelta + T_RECARGA,
                 dist |-> camion.dist + d_vuelta]]
    /\ ubic' = 0
    /\ pc' = "select"
    /\ UNCHANGED <<df, asignado, dia_entrega, entregas, metricas, dia_actual, idx>>

\* Line 155 with the condition false: the inner loop goes on from line 95.
SinRecarga ==
    /\ pc = "recharge"
    /\ ~NecesitaRecarga(camiones[idx].carga)
    /\ pc' = "select"
    /\ UNCHANGED <<df, asignado, dia_entrega, entregas, metricas, dia_actual, camiones, idx, ubic>>

\* Lines 167-172: the closing leg, taken when the truck is not at the depot.
\* Variant of the closing-leg test that returns to the depot from anywhere.
HayTramoFinalSiempre(u) == TRUE

HayTramoFinal(u) == u # 0

CerrarRuta ==
    /\ pc = "close"
    /\ IF HayTramoFinal(ubic)
       THEN LET camion == camiones[idx]
                d_final == distancia(coords(ubic), coords(0))
                t_final == Tiempo(d_final)
            IN camiones' = [camiones EXCEPT ![idx] =
                     [ruta |-> Append(camion.ruta, 0),
                      carga |-> camion.carga,
                      tiempo |-> camion.tiempo + t_final,
                      dist |-> camion.dist + d_final]]
       ELSE UNCHANGED camiones
    /\ pc' = "metric"
    /\ UNCHANGED <<df, asignado, dia_entrega, entregas, metricas, dia_actual, idx, ubic>>

\* Lines 175-180, then the next truck of line 91 (ubic = 0, line 92) or the
\* end of the truck loop.
RegistrarMetrica ==
    /\ pc = "metric"
    /\ metricas' = Append(metricas,
            [dia |-> dia_actual, camion |-> idx,
             distancia_km |-> Round2(camiones[idx].dist),
             tiempo_min |-> Round1(camiones[idx].tiempo)])
    /\ IF idx < NumCamiones
       THEN /\ idx' = idx + 1
            /\ ubic' = 0
            /\ pc' = "select"
       ELSE /\ pc' = "day_end"
            /\ UNCHANGED <<idx, ubic>>
    /\ UNCHANGED <<df, asignado, dia_entrega, entregas, dia_actual, camiones>>

\* Line 183: next day, back to the loop test of line 76.
AvanzarDia ==
    /\ pc = "day_end"
    /\ dia_actual' = dia_actual + 1
    /\ pc' = "day_test"
    /\ UNCHANGED <<df, asignado, dia_entrega, entregas, metricas, camiones, idx, ubic>>

Next ==
    \/ Terminar
    \/ IniciarDia
    \/ SinCandidato
    \/ Atender
    \/ Recargar
    \/ SinRecarga
    \/ CerrarRuta
    \/ RegistrarMetrica
    \/ AvanzarDia

Spec == Init /\ [][Next]_vars

\* The script runs to the end without waiting on anything: a step that can
\* be taken is taken.
FairSpec == Spec /\ WF_vars(Next)

\* ------------------------------------------------------------------------
\* Observations used by the properties
\* ------------------------------------------------------------------------
\* The row of the client with identity cid (identities are distinct).
FilaDe(cid) == CHOOSE i \in 1..N : df[i].id = cid

\* Weight really on board after a route: the demand weights of the clients
\* visited since the truck last left the depot, in 1/PesoEscala kg.
RECURSIVE CargaReal(_)
CargaReal(ruta) ==
    IF ruta = <<>> THEN 0
    ELSE LET ult == ruta[Len(ruta)]
         IN IF ult = 0 THEN 0
            ELSE df[FilaDe(ult)].peso + CargaReal(SubSeq(ruta, 1, Len(ruta) - 1))

\* The delivery records of the client with identity cid.
RegistrosDe(cid) == {k \in 1..Len(entregas) : entregas[k].cliente = cid}

\* The delivery records of day d.
RegistrosDelDia(d) == {k \in 1..Len(entregas) : entregas[k].dia = d}

QuedanPendientes == \E i \in 1..N : ~asignado[i]

\* Every demand weight is at most the capacity limit.
PesosRuteables == \A i \in 1..N : df[i].peso <= CAPACIDAD_MAX * PesoEscala

\* The round trip depot - client - depot of row i, with the dispatch.
IdaYVuelta(i) ==
    Tiempo(distancia(coords(0), coords(df[i].id))) + T_DESPACHO
    + Tiempo(distancia(coords(df[i].id), coords(0)))

\* Every client can be served within a workday by a truck leaving the depot.
ViajesRuteables == \A i \in 1..N : IdaYVuelta(i) <= T_JORNADA

\* A step that commits a client: one delivery record is appended.
HayEntregaNueva == Len(entregas') = Len(entregas) + 1
EntregaNueva == entregas'[Len(entregas')]

\* ------------------------------------------------------------------------
\* C1. The weight really on board of every truck (the demand weights of the
\* clients it served since it last left the depot) never exceeds the
\* capacity limit, at any prefix of its route.
\* ------------------------------------------------------------------------
C1_CargaRealDentroDeCapacidad ==
    \A k \in 1..Len(camiones) :
        CargaReal(camiones[k].ruta) <= CAPACIDAD_MAX * PesoEscala

\* ------------------------------------------------------------------------
\* C2. When the day loop has exited, every client of the input has exactly
\* one delivery record.
\* ------------------------------------------------------------------------
C2_UnRegistroPorCliente ==
    pc = "done" => \A i \in 1..N : Cardinality(RegistrosDe(df[i].id)) = 1

\* A run of more clients than trucks that ended after two planned days.
C2_Witness ==
    /\ pc = "done"
    /\ N > NumCamiones
    /\ dia_actual = 3
    /\ Len(entregas) = N

\* ------------------------------------------------------------------------
\* C3. With a client heavier than the capacity limit the run fails before
\* any day is planned: the day counter stays at 1, no fleet is set up and
\* no delivery record and no daily metric is produced.
\* ------------------------------------------------------------------------
C3_FallaAntesDePlanificar ==
    ~PesosRuteables =>
        /\ dia_actual = 1
        /\ camiones = <<>>
        /\ entregas = <<>>
        /\ metricas = <<>>

\* ------------------------------------------------------------------------
\* C4. A complete day pass that served nobody while clients are pending.
\* ------------------------------------------------------------------------
DiaSinProgreso ==
    /\ pc = "day_end"
    /\ RegistrosDelDia(dia_actual) = {}
    /\ QuedanPendientes

\* C4 as stated: if every weight is at most the capacity limit, a day pass
\* without progress is unreachable, wherever the clients are placed.
C4_Original == PesosRuteables => ~DiaSinProgreso

\* C4 as amended: if every weight is at most the capacity limit and every
\* client's round trip from the depot (travel + dispatch + travel) fits in
\* the workday, a day pass without progress is unreachable, and every day
\* that was completed served at least one client, so that the day loop ends
\* after at most as many days as there are clients.
C4_Amended ==
    (PesosRuteables /\ ViajesRuteables) =>
        /\ ~DiaSinProgreso
        /\ pc = "day_end" => RegistrosDelDia(dia_actual) # {}
        /\ \A d \in 1..(dia_actual - 1) : RegistrosDelDia(d) # {}
        /\ dia_actual <= N + 1

\* A day pass is complete, it served clients and left others for a next day.
C4_Witness ==
    /\ PesosRuteables
    /\ ViajesRuteables
    /\ pc = "day_end"
    /\ QuedanPendientes
    /\ RegistrosDelDia(dia_actual) # {}

\* ------------------------------------------------------------------------
\* C5. After a complete day pass that served nobody while clients remain,
\* the run aborts: no further day is started.
\* ------------------------------------------------------------------------
C5_AbortaSinProgreso ==
    (dia_actual > 1 /\ pc \notin {"day_test", "done"}) =>
        RegistrosDelDia(dia_actual - 1) # {}

\* ------------------------------------------------------------------------
\* C6. At every commit, the elapsed time before the selection plus the cost
\* of the client committed (travel to it + dispatch + travel from it to the
\* depot) is at most the workday; so the elapsed time at the selection and
\* the departure time of every delivery record are within the workday.
\* ------------------------------------------------------------------------
C6_CommitDentroDeJornada ==
    /\ [](\A k \in 1..Len(entregas) : entregas[k].salida_min <= T_JORNADA)
    /\ [][HayEntregaNueva =>
            LET fila == FilaDe(EntregaNueva.cliente)
                antes == camiones[idx].tiempo
            IN /\ antes + TIda(ubic, fila) + T_DESPACHO + TRet(fila) <= T_JORNADA
               /\ antes <= T_JORNADA
               /\ EntregaNueva.salida_min = antes + TIda(ubic, fila) + T_DESPACHO
               /\ camiones'[idx].tiempo <= T_JORNADA]_vars

\* A commit that uses the workday to the last minute: after it the truck
\* needs exactly the rest of the workday to reach the depot.
C6_Witness ==
    /\ pc = "recharge"
    /\ ubic # 0
    /\ camiones[idx].tiempo + TRet(FilaDe(ubic)) = T_JORNADA

\* ------------------------------------------------------------------------
\* C7. The closing leg has just been taken by the truck at idx.
\* ------------------------------------------------------------------------
TramoFinalHecho == pc = "metric" /\ ubic # 0

TiempoTramoFinal == Tiempo(distancia(coords(ubic), coords(0)))

\* The closing leg took the truck from within the workday to beyond it.
TramoFinalExcede ==
    /\ TramoFinalHecho
    /\ camiones[idx].tiempo - TiempoTramoFinal <= T_JORNADA
    /\ camiones[idx].tiempo > T_JORNADA

\* The truck that has just closed its route had no time left for a pending
\* client that fits its load: the workday filter rejected that client.
SinTiempoParaMas ==
    \E i \in 1..N :
        /\ ~asignado[i]
        /\ Cabe(df[i].peso, camiones[idx].carga)
        /\ camiones[idx].tiempo - TiempoTramoFinal + TIda(ubic, i) + T_DESPACHO + TRet(i) > T_JORNADA

HuboRecarga ==
    /\ camiones'[idx].ruta = Append(camiones[idx].ruta, 0)
    /\ camiones'[idx].carga = 0
    /\ ubic' = 0

SobrepasaConElMinimo ==
    /\ QuedanPendientes
    /\ \A i \in 1..N :
         ~asignado[i] => camiones[idx].carga * PesoEscala + df[i].peso > CAPACIDAD_MAX * PesoEscala

C8_RecargaSiYSoloSi ==
    [][pc = "recharge" =>
            /\ HuboRecarga <=> SobrepasaConElMinimo
            /\ ~HuboRecarga => camiones' = camiones /\ ubic' = ubic]_vars

\* The boundary: clients are pending and load + least weight = capacity.
C8_Witness ==
    /\ pc = "recharge"
    /\ QuedanPendientes
    /\ \E i \in 1..N :
         /\ ~asignado[i]
         /\ camiones[idx].carga * PesoEscala + df[i].peso = CAPACIDAD_MAX * PesoEscala
    /\ \A i \in 1..N :
         ~asignado[i] => camiones[idx].carga * PesoEscala + df[i].peso >= CAPACIDAD_MAX * PesoEscala

\* ------------------------------------------------------------------------
\* C9. A client is marked served if and only if exactly one delivery record
\* exists for it, its day of delivery is the day of that record, and a
\* client marked served is never selected again nor reset to unserved.
\* ------------------------------------------------------------------------
C9_ServidoUnaVez ==
    /\ [](\A i \in 1..N :
            /\ asignado[i] <=> Cardinality(RegistrosDe(df[i].id)) = 1
            /\ ~asignado[i] => RegistrosDe(df[i].id) = {} /\ dia_entrega[i] = 0
            /\ \A k \in RegistrosDe(df[i].id) : dia_entrega[i] = entregas[k].dia)
    /\ [][\A i \in 1..N :
            asignado[i] =>
                /\ asignado'[i]
                /\ dia_entrega'[i] = dia_entrega[i]
                /\ HayEntregaNueva => EntregaNueva.cliente # df[i].id]_vars

\* A client served on the second day, after other clients were served on
\* the first day, and the next truck about to select.
C9_Witness ==
    /\ \E i \in 1..N : asignado[i] /\ dia_entrega[i] = 2
    /\ \E i \in 1..N : asignado[i] /\ dia_entrega[i] = 1
    /\ pc = "select"
    /\ idx = 2

\* ------------------------------------------------------------------------
\* C10. The day loop run on a table in which every client is served (the
\* empty table included) plans no day and produces no record and no metric.
\* ------------------------------------------------------------------------
C10_SinClientesPendientes ==
    /\ [](N = 0 => /\ pc \in {"day_test", "done"}
                   /\ dia_actual = 1
                   /\ entregas = <<>>
                   /\ metricas = <<>>
                   /\ camiones = <<>>)
    /\ [][(pc = "day_test" /\ \A i \in 1..N : asignado[i]) =>
            /\ pc' = "done"
            /\ UNCHANGED <<asignado, dia_entrega, entregas, metricas, dia_actual, camiones>>]_vars

\* The loop has exited on the empty table.
C10_Witness == pc = "done" /\ N = 0 /\ dia_actual = 1 /\ metricas = <<>>

\* ------------------------------------------------------------------------
\* C11. Scenario B: two clients A and B (in this row order), both at (5,0)
\* with 10 kg.  Truck 1 serves A on day 1, recharges at the depot (load back
\* to 0), serves B and closes: its route is depot, A, depot, B, depot, four
\* legs of 5 km; both clients are served on day 1 by truck 1 and trucks 2 to
\* 4 serve nobody.
\* ------------------------------------------------------------------------
EscenarioB ==
    /\ N = 2
    /\ \A i \in 1..2 : df[i].x = 5 /\ df[i].y = 0 /\ df[i].peso = 10 * PesoEscala

RutaEscenarioB == <<0, df[1].id, 0, df[2].id, 0>>

C11_EscenarioB ==
    EscenarioB =>
        /\ \A k \in 1..Len(camiones) :
             /\ k > 1 => camiones[k] = [ruta |-> <<0>>, carga |-> 0, tiempo |-> 0, dist |-> 0]
             /\ k = 1 =>
                  LET r == camiones[1].ruta
                  IN /\ r = SubSeq(RutaEscenarioB, 1, Len(r))
                     /\ camiones[1].dist = 5 * (Len(r) - 1)
                     /\ camiones[1].carga = (IF r[Len(r)] = 0 /\ Len(r) < 5 THEN 0 ELSE 10)
        /\ \A k \in 1..Len(entregas) :
             /\ entregas[k].dia = 1
             /\ entregas[k].camion = 1
             /\ entregas[k].cliente = df[k].id
             /\ entregas[k].dist_tramo_km = 5
        /\ dia_actual > 1 =>
             /\ camiones[1].ruta = RutaEscenarioB
             /\ Len(entregas) = 2
             /\ \A i \in 1..2 : asignado[i] /\ dia_entrega[i] = 1
             /\ Len(metricas) = 4
             /\ metricas[1] = [dia |-> 1, camion |-> 1, distancia_km |-> 20, tiempo_min |-> 60]
             /\ \A k \in 2..4 : metricas[k] = [dia |-> 1, camion |-> k, distancia_km |-> 0, tiempo_min |-> 0]
        /\ dia_actual <= 2
        /\ dia_actual = 2 => pc \in {"day_test", "done"}

\* The run of scenario B has ended.
C11_Witness == EscenarioB /\ pc = "done" /\ camiones[1].ruta = RutaEscenarioB

\* ------------------------------------------------------------------------
\* C12. On every planned day the trucks are routed in the order 1, 2, 3, 4:
\* a truck makes its first selection only after the route of the truck
\* before it is closed and its metric emitted, and every planned day emits
\* exactly 4 metrics, one per truck, also for trucks that served nobody.
\* ------------------------------------------------------------------------
\* The day is being planned: the fleet exists and the day is not yet counted.
EnElDia == pc \in {"select", "recharge", "close", "metric", "day_end"}

\* Number of trucks of the current day whose metric has been emitted.
MetricasDeHoy ==
    IF ~EnElDia THEN 0
    ELSE IF pc = "day_end" THEN 4
    ELSE idx - 1

C12_CamionesEnOrden ==
    /\ Len(metricas) = 4 * (dia_actual - 1) + MetricasDeHoy
    /\ \A j \in 1..Len(metricas) :
         /\ metricas[j].dia = ((j - 1) \div 4) + 1
         /\ metricas[j].camion = ((j - 1) % 4) + 1
    /\ EnElDia =>
         /\ Len(camiones) = 4
         /\ idx \in 1..4
         \* the trucks after the current one have not selected anything
         /\ \A k \in (idx + 1)..4 : camiones[k] = NuevoCamion
         \* the trucks before it have closed their route at the depot
         /\ \A k \in 1..(idx - 1) :
              /\ camiones[k].ruta[Len(camiones[k].ruta)] = 0
              /\ metricas[4 * (dia_actual - 1) + k].distancia_km = camiones[k].dist
              /\ metricas[4 * (dia_actual - 1) + k].tiempo_min = camiones[k].tiempo
         \* the deliveries of the day were made by the trucks routed so far
         /\ \A r \in 1..Len(entregas) :
              entregas[r].dia = dia_actual => entregas[r].camion <= idx
    /\ \A r \in 1..Len(entregas), q \in 1..Len(entregas) :
         (r < q /\ entregas[r].dia = entregas[q].dia) => entregas[r].camion <= entregas[q].camion

\* A planned day is complete: 4 metrics, the last truck served nobody and
\* an earlier one did.
C12_Witness ==
    /\ pc = "day_end"
    /\ Len(metricas) = 4 * dia_actual
    /\ camiones[4] = NuevoCamion
    /\ Len(camiones[2].ruta) > 1

\* ------------------------------------------------------------------------
\* C13. Whenever a client is committed, it is an unserved client that
\* passes the capacity filter and the workday filter, its cost is minimal
\* among the clients passing both filters, and among those of equal minimal
\* cost it is the first in the row order of the table.
\* ------------------------------------------------------------------------
\* Row i passes both filters for the truck being routed, as the state is
\* before the step.
PasaFiltros(i) ==
    /\ ~asignado[i]
    /\ df[i].peso + camiones[idx].carga * PesoEscala <= CAPACIDAD_MAX * PesoEscala
    /\ camiones[idx].tiempo + TIda(ubic, i) + T_DESPACHO + TRet(i) <= T_JORNADA

CosteDesdeAqui(i) == TIda(ubic, i) + T_DESPACHO + TRet(i)

C13_SeleccionMinima ==
    [][HayEntregaNueva =>
            LET sel == FilaDe(EntregaNueva.cliente)
            IN /\ PasaFiltros(sel)
               /\ \A j \in 1..N :
                    PasaFiltros(j) =>
                        /\ CosteDesdeAqui(sel) <= CosteDesdeAqui(j)
                        /\ CosteDesdeAqui(sel) = CosteDesdeAqui(j) => sel <= j]_vars

\* A fresh truck has just committed its first client although a later row
\* of the table, still pending, is at the same place and was feasible too (a
\* tie), and a cheaper choice than a third, pending, client.
C13_Witness ==
    /\ pc = "recharge"
    /\ camiones[idx].ruta = <<0, ubic>>
    /\ \E j \in 1..N :
         /\ ~asignado[j]
         /\ j > FilaDe(ubic)
         /\ coords(df[j].id) = coords(ubic)
         /\ df[j].peso <= CAPACIDAD_MAX * PesoEscala
    /\ \E j \in 1..N :
         /\ ~asignado[j]
         /\ df[j].peso <= CAPACIDAD_MAX * PesoEscala
         /\ IdaYVuelta(j) <= T_JORNADA
         /\ IdaYVuelta(j) > IdaYVuelta(FilaDe(ubic))

\* ------------------------------------------------------------------------
\* C14. On every commit the truck's load increases by exactly the demand
\* weight of the client that was selected and committed, its elapsed time
\* becomes the departure time, its distance increases by the leg distance
\* and its position becomes the selected client.
\* ------------------------------------------------------------------------
\* Every demand weight of the table is a whole number of kg.
PesosEnteros == \A i \in 1..N : df[i].peso % PesoEscala = 0

\* Stated for the tables of whole weights, on which int() changes nothing.
C14_CommitActualizaCamion ==
    [][(HayEntregaNueva /\ PesosEnteros) =>
            LET sel == FilaDe(EntregaNueva.cliente)
            IN /\ camiones'[idx].carga * PesoEscala
                    = camiones[idx].carga * PesoEscala + df[sel].peso
               /\ camiones'[idx].tiempo = EntregaNueva.salida_min
               /\ camiones'[idx].dist = camiones[idx].dist + EntregaNueva.dist_tramo_km
               /\ ubic' = EntregaNueva.cliente
               /\ camiones'[idx].ruta = Append(camiones[idx].ruta, EntregaNueva.cliente)]_vars

\* ------------------------------------------------------------------------
\* C15. The route construction of a truck always terminates: every
\* iteration either commits one client that was unserved, which lowers the
\* number of unserved clients by one, or leaves the loop; so a truck makes
\* at most as many iterations as clients were unserved when it started,
\* plus one.
\* ------------------------------------------------------------------------
\* Number of unserved clients.
NumPendientes == Cardinality({i \in 1..N : ~asignado[i]})

\* The clients committed so far by the truck being routed: the iterations of
\* its loop that did not leave it.
AtendidosPorCamion == Cardinality({k \in 1..Len(entregas) :
                                    entregas[k].dia = dia_actual /\ entregas[k].camion = idx})

\* Clients in a route (its entries other than the depot).
ClientesEnRuta(ruta) == Cardinality({k \in 1..Len(ruta) : ruta[k] # 0})

C15_BucleDeCamionTermina ==
    /\ [][pc = "select" =>
            \/ /\ pc' = "close"
               /\ UNCHANGED <<asignado, entregas, camiones, ubic>>
            \/ /\ pc' = "recharge"
               /\ HayEntregaNueva
               /\ ~asignado[FilaDe(EntregaNueva.cliente)]
               /\ NumPendientes' = NumPendientes - 1]_vars
    /\ [][pc = "recharge" => pc' = "select" /\ NumPendientes' = NumPendientes]_vars
    /\ [](pc \in {"select", "recharge", "close", "metric"} =>
            /\ ClientesEnRuta(camiones[idx].ruta) = AtendidosPorCamion
            \* unserved when the truck started = unserved now + served by it
            /\ AtendidosPorCamion + NumPendientes <= N
            /\ Len(entregas) + NumPendientes = N)

\* A truck leaves its loop after serving two clients, with clients pending.
C15_Witness ==
    /\ pc = "close"
    /\ AtendidosPorCamion >= 2
    /\ NumPendientes > 0

\* ------------------------------------------------------------------------
\* C16. A recharge and a closing leg change only the state of the truck
\* being routed.  Recharge: elapsed time += travel time to the depot +
\* recharge time, distance += leg, depot appended to the route, load = 0,
\* position = depot.  Closing leg: elapsed time += travel time, distance +=
\* leg, depot appended.  Both leave the served state of every client and
\* the delivery records as they are.
\* ------------------------------------------------------------------------
\* Kilometres from the position of the truck to the depot.
KmAlDeposito == distancia(coords(ubic), <<0, 0>>)

\* t minutes is the travel time of d km at VEL_MED km/h.
EsTiempoDe(t, d) == t * VEL_MED = d * 60

\* Nothing but the truck being routed (and the position of the script)
\* changes.
SoloCambiaElCamion ==
    /\ UNCHANGED <<df, asignado, dia_entrega, entregas, metricas, dia_actual, idx>>
    /\ \A k \in 1..Len(camiones) : k # idx => camiones'[k] = camiones[k]
    /\ Len(camiones') = Len(camiones)

C16_RecargaYCierre ==
    /\ [][(pc = "recharge" /\ camiones' # camiones) =>
            /\ SoloCambiaElCamion
            /\ EsTiempoDe(camiones'[idx].tiempo - camiones[idx].tiempo - T_RECARGA, KmAlDeposito)
            /\ camiones'[idx].dist = camiones[idx].dist + KmAlDeposito
            /\ camiones'[idx].ruta = Append(camiones[idx].ruta, 0)
            /\ camiones'[idx].carga = 0
            /\ ubic' = 0]_vars
    /\ [][(pc = "close" /\ camiones' # camiones) =>
            /\ SoloCambiaElCamion
            /\ EsTiempoDe(camiones'[idx].tiempo - camiones[idx].tiempo, KmAlDeposito)
            /\ camiones'[idx].dist = camiones[idx].dist + KmAlDeposito
            /\ camiones'[idx].ruta = Append(camiones[idx].ruta, 0)
            /\ camiones'[idx].carga = camiones[idx].carga
            /\ ubic' = ubic]_vars
    /\ [][(pc = "recharge" \/ pc = "close") =>
            UNCHANGED <<df, asignado, dia_entrega, entregas, metricas, dia_actual, idx>>]_vars

\* A truck that recharged on its way has also made its closing leg from its
\* last client, with clients still pending.
C16_Witness ==
    /\ pc = "metric"
    /\ ubic # 0
    /\ \E k \in 2..(Len(camiones[idx].ruta) - 1) : camiones[idx].ruta[k] = 0
    /\ QuedanPendientes

\* ------------------------------------------------------------------------
\* C17. The final route of every truck for a day starts at the depot and
\* ends at the depot, a depot entry follows every recharge, and the route
\* never has two consecutive depot entries; a truck that serves nobody has
\* the route made of the depot alone, with distance 0 and time 0.
\* ------------------------------------------------------------------------
\* The route of truck k is final: the truck was routed before the current
\* one, or it is the current one and its closing leg has been decided.
RutaFinal(k) ==
    \/ pc = "day_end"
    \/ pc \in {"select", "recharge", "close", "metric"} /\ k < idx
    \/ pc = "metric" /\ k = idx

SinDepositosSeguidos(ruta) ==
    \A j \in 1..(Len(ruta) - 1) : ~(ruta[j] = 0 /\ ruta[j + 1] = 0)

C17_RutaDeDepositoADeposito ==
    /\ [](\A k \in 1..Len(camiones) :
            /\ camiones[k].ruta[1] = 0
            /\ SinDepositosSeguidos(camiones[k].ruta)
            /\ RutaFinal(k) =>
                 /\ camiones[k].ruta[Len(camiones[k].ruta)] = 0
                 /\ ClientesEnRuta(camiones[k].ruta) = 0 =>
                      /\ camiones[k].ruta = <<0>>
                      /\ camiones[k].dist = 0
                      /\ camiones[k].tiempo = 0)
    /\ [][(pc = "recharge" /\ camiones' # camiones) =>
            camiones'[idx].ruta[Len(camiones'[idx].ruta)] = 0]_vars

\* The day is planned: a truck recharged between two clients and returned
\* after the second, and another truck stayed at the depot.
C17_Witness ==
    /\ pc = "day_end"
    /\ \E k \in 1..Len(camiones) :
          /\ Len(camiones[k].ruta) = 5
          /\ camiones[k].ruta[3] = 0
    /\ \E k \in 1..Len(camiones) : camiones[k].ruta = <<0>>

\* ------------------------------------------------------------------------
\* C18. The elapsed time a truck reports in its daily metric never exceeds
\* the workday plus the recharge time, and it exceeds the workday only when
\* the last step of the route was a recharge, never when it was a closing
\* leg or when the truck served nobody.
\* ------------------------------------------------------------------------
\* The last step of the route of the truck being routed was a recharge: the
\* loop left the truck at the depot after at least one client.
UltimoPasoFueRecarga ==
    /\ ubic = 0
    /\ ClientesEnRuta(camiones[idx].ruta) > 0

\* Position in metricas of the record of truck k for the current day, the
\* trucks being recorded in order.
MetricaDe(k) == Len(metricas) - (IF pc = "day_end" THEN Len(camiones) ELSE idx) + k

C18_TiempoReportado ==
    /\ \A m \in 1..Len(metricas) : metricas[m].tiempo_min <= T_JORNADA + T_RECARGA
    /\ pc = "metric" =>
          /\ camiones[idx].tiempo <= T_JORNADA + T_RECARGA
          /\ camiones[idx].tiempo > T_JORNADA => UltimoPasoFueRecarga
    /\ pc = "day_end" =>
          \A k \in 1..Len(camiones) :
             /\ metricas[MetricaDe(k)].tiempo_min = Round1(camiones[k].tiempo)
             /\ camiones[k].tiempo > T_JORNADA =>
                   ClientesEnRuta(camiones[k].ruta) > 0

\* A truck is about to report more than the workday after a final recharge.
C18_Witness ==
    /\ pc = "metric"
    /\ camiones[idx].tiempo > T_JORNADA
    /\ UltimoPasoFueRecarga

\* ------------------------------------------------------------------------
\* C19. If every weight is at most the capacity and every client's round
\* trip from the depot fits in the workday, then on every day that is
\* planned (there are unserved clients) truck 1 serves at least one client,
\* so the run plans at most N days for N clients; and on any day, a truck
\* that serves no client is followed only by trucks that serve no client.
\* ------------------------------------------------------------------------
\* The deliveries of truck k on day d.
RegistrosDe_DiaCamion(d, k) ==
    {r \in 1..Len(entregas) : entregas[r].dia = d /\ entregas[r].camion = k}

\* Truck 1 has left its loop on the current day.
Camion1Terminado ==
    \/ pc = "day_end"
    \/ pc \in {"select", "recharge", "close", "metric"} /\ idx > 1
    \/ pc \in {"close", "metric"} /\ idx = 1

C19_Camion1SiempreSirve ==
    /\ (PesosRuteables /\ ViajesRuteables) =>
          /\ Camion1Terminado => RegistrosDe_DiaCamion(dia_actual, 1) # {}
          /\ \A d \in 1..(dia_actual - 1) : RegistrosDe_DiaCamion(d, 1) # {}
          /\ pc = "done" => dia_actual - 1 <= N
    /\ \A r \in 1..Len(entregas) :
          \A j \in 1..(entregas[r].camion - 1) :
             RegistrosDe_DiaCamion(entregas[r].dia, j) # {}

\* A second day was needed and planned: its truck 1 served the client that
\* was left and the trucks after it served nobody.
C19_Witness ==
    /\ PesosRuteables
    /\ ViajesRuteables
    /\ pc = "day_end"
    /\ dia_actual = 2
    /\ RegistrosDe_DiaCamion(2, 1) # {}
    /\ RegistrosDe_DiaCamion(2, 2) = {}
    /\ ~QuedanPendientes

\* ------------------------------------------------------------------------
\* C20. The load tracked in the truck state (the one the capacity filter
\* and the recharge check read) is between 0 and the capacity limit in
\* every reachable state, whatever weight the commit added to it.
\* ------------------------------------------------------------------------
C20_CargaRegistradaAcotada ==
    /\ [](\A k \in 1..Len(camiones) :
            /\ camiones[k].carga >= 0
            /\ camiones[k].carga <= CAPACIDAD_MAX)
    /\ [][HayEntregaNueva =>
            /\ camiones'[idx].carga >= camiones[idx].carga
            /\ camiones'[idx].carga <= CAPACIDAD_MAX]_vars

\* The tracked load is at the limit while the weight really on board is
\* another one.
C20_Witness ==
    /\ pc = "recharge"
    /\ camiones[idx].carga = CAPACIDAD_MAX
    /\ CargaReal(camiones[idx].ruta) # camiones[idx].carga * PesoEscala
====
